---- MODULE Spec2Model ----
(***************************************************************************)
(* Model of snatchbot's anagram solver (SnatchableWordGenerator) and of    *)
(* the application loop of main.cpp that constructs and queries it.        *)
(*                                                                         *)
(* A string is a sequence of character codes (ASCII): 65 = 'A', 66 = 'B',  *)
(* 97 = 'a', 98 = 'b'.  A word list is a sequence of strings.  The anagram *)
(* index sortedStringToAnagrams is a function from keys (strings) to       *)
(* buckets (sequences of strings).                                         *)
(***************************************************************************)
EXTENDS Integers, Sequences, FiniteSets, TLC

\* ------------------------------------------------------------------------
\* Bounds of the model
\* ------------------------------------------------------------------------
\* most lines in the dictionary file
MaxLines == 2
\* most letter tiles on the board in one frame (summed length of the words)
MaxTiles == 4

\* the minimum length of a dictionary word that is indexed
MinWordLen == 3

\* ------------------------------------------------------------------------
\* Input domains
\* ------------------------------------------------------------------------
\* letters the recognizer can put on the board: 'A', 'B'
BoardChars == {65, 66}

\* lines a dictionary file is made of: "", "ab", "aab", "ABA", "Aba", "abb",
\* "aabb"
DictionaryLines ==
    { <<>>, <<97, 98>>, <<97, 97, 98>>, <<65, 66, 65>>, <<65, 98, 97>>,
      <<97, 98, 98>>, <<97, 97, 98, 98>> }

RECURSIVE SeqsOfLen(_, _)
SeqsOfLen(S, n) ==
    IF n = 0 THEN { <<>> }
    ELSE { Append(s, x) : s \in SeqsOfLen(S, n - 1), x \in S }

SeqsUpTo(S, n) == UNION { SeqsOfLen(S, k) : k \in 0..n }

\* every file of at most MaxLines lines
DictionaryFiles == SeqsUpTo(DictionaryLines, MaxLines)

\* every board of words of length >= 1 over BoardChars that uses exactly t tiles
RECURSIVE BoardsOfTiles(_)
BoardsOfTiles(t) ==
    IF t = 0 THEN { <<>> }
    ELSE UNION { { Append(b, w) : b \in BoardsOfTiles(t - k),
                                  w \in SeqsOfLen(BoardChars, k) } : k \in 1..t }

\* every word list generateWords can hand to the solver
Boards == UNION { BoardsOfTiles(t) : t \in 0..MaxTiles }

\* ------------------------------------------------------------------------
\* Library functions used by the code
\* ------------------------------------------------------------------------
\* std::toupper on an ASCII character
toupper(c) == IF c \in 97..122 THEN c - 32 ELSE c

\* the word stored as it was read
KeepCase(word) == word

\* std::transform(word.begin(), word.end(), word.begin(), toupper)
ToUpperString(word) == [ i \in 1..Len(word) |-> toupper(word[i]) ]

\* insertion of one character into an ascending string
RECURSIVE InsertSorted(_, _)
InsertSorted(s, c) ==
    IF s = <<>> THEN << c >>
    ELSE IF c <= Head(s) THEN << c >> \o s
    ELSE << Head(s) >> \o InsertSorted(Tail(s), c)

\* the string left in the order it has
KeepOrder(s) == s

\* std::sort(s.begin(), s.end()) on a string: ascending character order
RECURSIVE SortString(_)
SortString(s) ==
    IF s = <<>> THEN <<>>
    ELSE InsertSorted(SortString(Tail(s)), Head(s))

\* combinedString += word for every word of the subset, in subset order
RECURSIVE CombineSubset(_)
CombineSubset(subset) ==
    IF subset = <<>> THEN <<>>
    ELSE Head(subset) \o CombineSubset(Tail(subset))

\* the key without the std::sort of the joined string
SubsetKeyUnsorted(subset) == CombineSubset(subset)

\* the canonical key of a subset: the joined strings, sorted
SubsetKey(subset) == SortString(CombineSubset(subset))

\* ------------------------------------------------------------------------
\* SnatchableWordGenerator: the dictionary load
\* ------------------------------------------------------------------------
\* the default-constructed unordered_map
EmptyIndex == [ k \in {} |-> <<>> ]

\* the length test one character too lenient
IsTooShortOffByOne(word) == Len(word) < MinWordLen - 1

\* if (std::size(word) < 3) { continue; }
IsTooShort(word) == Len(word) < MinWordLen

\* a bucket that keeps one copy of each word
PushBackUnique(index, sortedWord, word) ==
    [ k \in DOMAIN index \cup { sortedWord } |->
        IF k = sortedWord
        THEN (IF k \in DOMAIN index
              THEN (IF \E i \in DOMAIN index[k] : index[k][i] = word
                    THEN index[k] ELSE Append(index[k], word))
              ELSE << word >>)
        ELSE index[k] ]

\* sortedStringToAnagrams[sortedWord].push_back(word): operator[] creates
\* an empty bucket for a new key, push_back appends to the bucket
PushBack(index, sortedWord, word) ==
    [ k \in DOMAIN index \cup { sortedWord } |->
        IF k = sortedWord
        THEN (IF k \in DOMAIN index THEN Append(index[k], word) ELSE << word >>)
        ELSE index[k] ]

\* the body of the getline loop for one line of the file
LoadLine(index, line) ==
    IF IsTooShort(line) THEN index
    ELSE LET word == ToUpperString(line)
             sortedWord == SortString(word)
         IN  PushBack(index, sortedWord, word)

\* while (std::getline(infile, word)) { ... }
RECURSIVE LoadLines(_, _)
LoadLines(index, lines) ==
    IF lines = <<>> THEN index
    ELSE LoadLines(LoadLine(index, Head(lines)), Tail(lines))

\* a constructor that does not throw when the file is not open
ConstructorSilent(file) ==
    [ thrown |-> FALSE,
      index |-> IF file.isOpen THEN LoadLines(EmptyIndex, file.lines) ELSE EmptyIndex ]

\* the constructor: builds the index from an open file, throws otherwise
Constructor(file) ==
    IF file.isOpen
    THEN [ thrown |-> FALSE, index |-> LoadLines(EmptyIndex, file.lines) ]
    ELSE [ thrown |-> TRUE, index |-> EmptyIndex ]

\* getInstance: the function-local static is constructed on the first call
\* that finds it unconstructed; a constructor that throws leaves it
\* unconstructed and the exception leaves getInstance
getInstance(constructed, index, file) ==
    IF constructed
    THEN [ thrown |-> FALSE, constructed |-> TRUE, index |-> index ]
    ELSE LET c == Constructor(file)
         IN  [ thrown |-> c.thrown, constructed |-> ~c.thrown,
               index |-> IF c.thrown THEN index ELSE c.index ]

\* ------------------------------------------------------------------------
\* SnatchableWordGenerator: the solver
\* ------------------------------------------------------------------------
\* the int argument std::size(words) - 1: for an empty vector the unsigned
\* subtraction wraps to SIZE_MAX, whose conversion to int is -1
SizeMinusOne(n) == IF n = 0 THEN -1 ELSE n - 1

\* subsets kept as sets of strings: a word equal to a member is not added
RECURSIVE ExtendSubsetsAsSets(_, _)
ExtendSubsetsAsSets(subproblem, word) ==
    IF subproblem = <<>> THEN <<>>
    ELSE (IF \E i \in DOMAIN Head(subproblem) : Head(subproblem)[i] = word
          THEN << Head(subproblem) >>
          ELSE << Head(subproblem), Append(Head(subproblem), word) >>)
         \o ExtendSubsetsAsSets(Tail(subproblem), word)

\* the for loop of generateSubsets: every subset of the subproblem, followed
\* by the same subset with word pushed back
RECURSIVE ExtendSubsets(_, _)
ExtendSubsets(subproblem, word) ==
    IF subproblem = <<>> THEN <<>>
    ELSE << Head(subproblem), Append(Head(subproblem), word) >>
         \o ExtendSubsets(Tail(subproblem), word)

\* a base case that pushes { words[0] } only
RECURSIVE generateSubsetsWithoutEmpty(_, _)
generateSubsetsWithoutEmpty(i, words) ==
    IF i < 0 THEN <<>>
    ELSE IF i = 0 THEN << << words[1] >> >>
    ELSE ExtendSubsets(generateSubsetsWithoutEmpty(i - 1, words), words[i + 1])

\* generateSubsets(i, words); words[i] of the code is words[i + 1] here
RECURSIVE generateSubsets(_, _)
generateSubsets(i, words) ==
    IF i < 0 THEN <<>>
    ELSE IF i = 0 THEN << <<>>, << words[1] >> >>
    ELSE ExtendSubsets(generateSubsets(i - 1, words), words[i + 1])

\* only the empty subset erased
IsErasedWhenEmpty(subset) == Len(subset) < 1

\* the predicate of std::erase_if
IsErased(subset) == Len(subset) <= 1

EraseSmall(powerSet) == SelectSeq(powerSet, LAMBDA subset : ~IsErased(subset))

\* the lookup done with operator[], which inserts an empty bucket on a miss
LookupInserting(index, combinedString) ==
    [ index |-> IF combinedString \in DOMAIN index THEN index
                ELSE [ k \in DOMAIN index \cup { combinedString } |->
                         IF k = combinedString THEN <<>> ELSE index[k] ],
      anagrams |-> IF combinedString \in DOMAIN index
                   THEN index[combinedString] ELSE <<>> ]

\* contains(combinedString) followed by at(combinedString): neither inserts
Lookup(index, combinedString) ==
    [ index |-> index,
      anagrams |-> IF combinedString \in DOMAIN index
                   THEN index[combinedString] ELSE <<>> ]

\* anagrams already in the result are not pushed again
RECURSIVE PushAnagramsOnce(_, _)
PushAnagramsOnce(snatchable, anagrams) ==
    IF anagrams = <<>> THEN snatchable
    ELSE PushAnagramsOnce(
             IF \E i \in DOMAIN snatchable : snatchable[i] = Head(anagrams)
             THEN snatchable ELSE Append(snatchable, Head(anagrams)),
             Tail(anagrams))

\* for_each(anagrams, push_back)
PushAnagrams(snatchable, anagrams) == snatchable \o anagrams

\* the anagrams of the subset assigned to the result instead of pushed back
ExamineSubsetKeepingLast(acc, subset) ==
    LET found == Lookup(acc.index, SubsetKey(subset))
    IN  [ index |-> found.index, snatchableWords |-> found.anagrams ]

\* the body of the loop over powerSetWords for one subset
ExamineSubset(acc, subset) ==
    LET found == Lookup(acc.index, SubsetKey(subset))
    IN  [ index |-> found.index,
          snatchableWords |-> PushAnagrams(acc.snatchableWords, found.anagrams) ]

RECURSIVE ExamineSubsets(_, _)
ExamineSubsets(acc, subsets) ==
    IF subsets = <<>> THEN acc
    ELSE ExamineSubsets(ExamineSubset(acc, Head(subsets)), Tail(subsets))

\* generateSnatchableWords(words): the returned vector, and with it the
\* member index, the argument and the local powerSetWords as the call
\* leaves them
generateSnatchableWords(wordsArg, index) ==
    LET powerSet == EraseSmall(generateSubsets(SizeMinusOne(Len(wordsArg)), wordsArg))
        acc == ExamineSubsets([ index |-> index, snatchableWords |-> <<>> ], powerSet)
    IN  [ snatchableWords |-> acc.snatchableWords,
          index |-> acc.index,
          words |-> wordsArg,
          powerSetWords |-> powerSet ]

\* ------------------------------------------------------------------------
\* State
\* ------------------------------------------------------------------------
VARIABLES
    dictionaryFile,          \* words_popular.txt: [isOpen, lines]
    mainPc,                  \* "initialize", "loop", "processFrame" or "returned"
    exitCode,                \* the value main returned, 1 while running
    what,                    \* e.what() of the exception main caught, or "none"
    instance,                \* TRUE once the static instance is constructed
    sortedStringToAnagrams,  \* the member index of the instance
    boardWords,              \* what generateWords returned to processFrame
    words,                   \* processFrame's words after the solver call
    powerSetWords,           \* the solver's subsets after erase_if
    snatchableWords          \* processFrame's snatchableWords

\* the graph utilities: a call of createLetterNodeGraph and a call of
\* findConnectedComponents
VARIABLES
    graphPc,                 \* "idle", "start", "built", "thrown", "components",
                             \* "done" or "failed"
    letterNodes,             \* the argument of createLetterNodeGraph
    isAdjacent,              \* the predicate passed: [holds, throwsOn]
    graph,                   \* the graph handed to findConnectedComponents
    evaluations,             \* the pairs the predicate was called on, in order
    graphError,              \* the exception that left the call, or "none"
    keysLeft,                \* keys the loop of findConnectedComponents has not reached
    visited,                 \* findConnectedComponents' visited
    stack,                   \* the active dfs calls: [node, pending]
    word,                    \* the word passed to dfs by reference
    componentWords,          \* findConnectedComponents' words
    dfsCalls,                \* per top-level dfs, the nodes dfs was entered on
    returnedWords            \* what findConnectedComponents returned, or "none"

graphVars == << graphPc, letterNodes, isAdjacent, graph, evaluations,
                graphError, keysLeft, visited, stack, word, componentWords,
                dfsCalls, returnedWords >>

\* threads that call SnatchableWordGenerator::getInstance for the first time
VARIABLES
    threadPc,                \* per thread: "start", "waiting", "woken",
                             \* "constructing", "ready", "queried" or "threw"
    constructing,            \* the thread that holds the guard of the static, or 0
    linesRead,               \* per thread: lines its constructor has read
    loads,                   \* constructor runs that completed
    got,                     \* per thread: the construction its reference is of, or 0
    seenIndex                \* per thread: the index its query read, or "none"

threadVars == << threadPc, constructing, linesRead, loads, got, seenIndex >>

\* a hashed container of letter nodes, as std::unordered_set<LetterNode> visited
\* and the keys of the graph are
VARIABLES
    hashOfFloat,             \* the std::hash<float> of the implementation
    hashSet,                 \* per bucket, the nodes stored in it
    inserted                 \* the nodes insert was called on, in order

nodeVars == << hashOfFloat, hashSet, inserted >>

vars == << dictionaryFile, mainPc, exitCode, what, instance,
           sortedStringToAnagrams, boardWords, words, powerSetWords,
           snatchableWords, graphVars, threadVars, nodeVars >>

\* the locals of processFrame and of the solver call it makes
solverVars == << boardWords, words, powerSetWords, snatchableWords >>

Running == 1

\* std::unordered_map<LetterNode, std::unordered_set<LetterNode>> graph;
EmptyGraph == [ u \in {} |-> {} ]

\* no call of the graph utilities is in progress
GraphIdle ==
    /\ graphPc = "idle"
    /\ letterNodes = <<>>
    /\ isAdjacent = [ holds |-> {}, throwsOn |-> {} ]
    /\ graph = EmptyGraph
    /\ evaluations = <<>>
    /\ graphError = "none"
    /\ keysLeft = {}
    /\ visited = {}
    /\ stack = <<>>
    /\ word = <<>>
    /\ componentWords = <<>>
    /\ dfsCalls = <<>>
    /\ returnedWords = "none"

\* no thread besides main exists
ThreadsIdle ==
    /\ threadPc = << >>
    /\ constructing = 0
    /\ linesRead = << >>
    /\ loads = 0
    /\ got = << >>
    /\ seenIndex = << >>

\* main has not called initialize yet
MainInit ==
    /\ dictionaryFile \in
          { [ isOpen |-> FALSE, lines |-> <<>> ] }
          \cup { [ isOpen |-> TRUE, lines |-> f ] : f \in DictionaryFiles }
    /\ mainPc = "initialize"
    /\ exitCode = Running
    /\ what = "none"
    /\ instance = FALSE
    /\ sortedStringToAnagrams = EmptyIndex
    /\ boardWords = <<>>
    /\ words = <<>>
    /\ powerSetWords = <<>>
    /\ snatchableWords = <<>>

\* no container of letter nodes exists
NodesIdle ==
    /\ hashOfFloat = "none"
    /\ hashSet = << >>
    /\ inserted = <<>>

Init ==
    /\ MainInit
    /\ GraphIdle
    /\ ThreadsIdle
    /\ NodesIdle

\* main catches the runtime_error of initialize and returns -1
InitializeThrows(message) ==
    /\ what' = message
    /\ exitCode' = -1
    /\ mainPc' = "returned"
    /\ UNCHANGED << instance, sortedStringToAnagrams >>

\* main: try { initialize(cap, windowName); } catch ... return -1
Initialize ==
    /\ mainPc = "initialize"
    /\ \E cameraOpened \in BOOLEAN, tesseractOk \in BOOLEAN :
          IF ~cameraOpened THEN InitializeThrows("Cannot open camera.")
          ELSE IF ~tesseractOk THEN InitializeThrows("Could not initialize tesseract.")
          ELSE LET g == getInstance(instance, sortedStringToAnagrams, dictionaryFile)
               IN  IF g.thrown THEN InitializeThrows("Cannot open dictionary file.")
                   ELSE /\ instance' = g.constructed
                        /\ sortedStringToAnagrams' = g.index
                        /\ mainPc' = "loop"
                        /\ UNCHANGED << exitCode, what >>
    /\ UNCHANGED << dictionaryFile, solverVars, graphVars, threadVars, nodeVars >>

\* main loop, case 13: processFrame(frame, windowName) up to its
\* cv::waitKey(0), where it waits with its locals alive
ProcessFrame ==
    /\ mainPc = "loop"
    /\ \E board \in Boards :
          LET g == getInstance(instance, sortedStringToAnagrams, dictionaryFile)
              r == generateSnatchableWords(board, g.index)
          IN  /\ ~g.thrown
              /\ instance' = g.constructed
              /\ boardWords' = board
              /\ words' = r.words
              /\ powerSetWords' = r.powerSetWords
              /\ snatchableWords' = r.snatchableWords
              /\ sortedStringToAnagrams' = r.index
    /\ mainPc' = "processFrame"
    /\ UNCHANGED << dictionaryFile, exitCode, what, graphVars, threadVars, nodeVars >>

\* a key ends cv::waitKey(0): processFrame returns, its locals are gone,
\* main shows the options and loops
ProcessFrameReturns ==
    /\ mainPc = "processFrame"
    /\ mainPc' = "loop"
    /\ boardWords' = <<>>
    /\ words' = <<>>
    /\ powerSetWords' = <<>>
    /\ snatchableWords' = <<>>
    /\ UNCHANGED << dictionaryFile, exitCode, what, instance, sortedStringToAnagrams,
                    graphVars, threadVars, nodeVars >>

\* main loop: cap.read fails, main returns -1
CameraDisconnected ==
    /\ mainPc = "loop"
    /\ mainPc' = "returned"
    /\ exitCode' = -1
    /\ UNCHANGED << dictionaryFile, what, instance, sortedStringToAnagrams, solverVars,
                    graphVars, threadVars, nodeVars >>

\* main loop, case 27: main returns 0
EscapeKey ==
    /\ mainPc = "loop"
    /\ mainPc' = "returned"
    /\ exitCode' = 0
    /\ UNCHANGED << dictionaryFile, what, instance, sortedStringToAnagrams, solverVars,
                    graphVars, threadVars, nodeVars >>

Next ==
    \/ Initialize
    \/ ProcessFrame
    \/ ProcessFrameReturns
    \/ CameraDisconnected
    \/ EscapeKey

Spec == Init /\ [][Next]_vars

\* ------------------------------------------------------------------------
\* Vocabulary of the properties
\* ------------------------------------------------------------------------
Range(s) == { s[i] : i \in DOMAIN s }

\* how often x occurs in the sequence s
Count(s, x) == Cardinality({ i \in DOMAIN s : s[i] = x })

\* the sum of f[x] over x in S
RECURSIVE SumOver(_, _)
SumOver(f, S) ==
    IF S = {} THEN 0
    ELSE LET x == CHOOSE y \in S : TRUE
         IN  f[x] + SumOver(f, S \ { x })

\* every character that occurs in a file line or on the board
AllChars == BoardChars \cup UNION { Range(l) : l \in DictionaryLines }

\* the sets of at least two distinct positions of a list of n words
PositionSets(n) == { S \in SUBSET (1..n) : Cardinality(S) >= 2 }

\* the words at the positions S, in increasing position order
RECURSIVE WordsAtFrom(_, _, _)
WordsAtFrom(ws, S, i) ==
    IF i > Len(ws) THEN <<>>
    ELSE IF i \in S THEN << ws[i] >> \o WordsAtFrom(ws, S, i + 1)
    ELSE WordsAtFrom(ws, S, i + 1)

WordsAt(ws, S) == WordsAtFrom(ws, S, 1)

\* d has exactly the letters of the words at the positions S, letter by letter
SameLetters(d, ws, S) ==
    \A c \in AllChars :
        Count(d, c) = SumOver([ i \in S |-> Count(ws[i], c) ], S)

\* the subsets of positions whose letters rearrange to d
MatchingSets(d, ws) == { S \in PositionSets(Len(ws)) : SameLetters(d, ws, S) }

\* the uppercased source lines of length >= 3, one per line of the file
SourceWords(lines) ==
    SelectSeq([ i \in DOMAIN lines |->
                  IF Len(lines[i]) >= MinWordLen
                  THEN [ c \in DOMAIN lines[i] |->
                           IF lines[i][c] >= 97 THEN lines[i][c] - 32 ELSE lines[i][c] ]
                  ELSE <<>> ],
              LAMBDA w : w # <<>>)

\* the bucket the index holds for a subset of positions, empty when none
BucketOf(index, ws, S) ==
    LET key == SortString(CombineSubset(WordsAt(ws, S)))
    IN  IF key \in DOMAIN index THEN index[key] ELSE <<>>

\* generateSnatchableWords has returned to processFrame, which holds the
\* result
Called == mainPc = "processFrame"

\* ------------------------------------------------------------------------
\* C1: the distinct strings generateSnatchableWords returns are exactly the
\* uppercased dictionary words of length >= 3 whose letters are the letters
\* of the words at some set of at least two positions of the input.
\* ------------------------------------------------------------------------
C1_ExactlyTheSnatchableWords ==
    Called =>
        Range(snatchableWords) =
            { d \in Range(SourceWords(dictionaryFile.lines)) :
                MatchingSets(d, boardWords) # {} }

\* a word is returned from words of several letters while another
\* dictionary word is not returned
C1_Witness ==
    /\ Called
    /\ snatchableWords # <<>>
    /\ Range(SourceWords(dictionaryFile.lines)) \ Range(snatchableWords) # {}
    /\ Len(boardWords) >= 3
    /\ \E i \in DOMAIN boardWords : Len(boardWords[i]) >= 2

\* ------------------------------------------------------------------------
\* C2: the result holds one entry per pair of a position set of size >= 2
\* and an entry of the bucket of that set's key: its length is the sum of
\* the bucket sizes and a word is repeated once per set that reaches it.
\* ------------------------------------------------------------------------
C2_OneEntryPerSubsetAndBucketEntry ==
    Called =>
        LET sets == PositionSets(Len(boardWords))
            bucket == [ S \in sets |-> BucketOf(sortedStringToAnagrams, boardWords, S) ]
        IN  /\ Len(snatchableWords) = SumOver([ S \in sets |-> Len(bucket[S]) ], sets)
            /\ \A w \in Range(snatchableWords) \cup UNION { Range(bucket[S]) : S \in sets } :
                  Count(snatchableWords, w)
                      = SumOver([ S \in sets |-> Count(bucket[S], w) ], sets)

\* a word stored once in the dictionary is returned twice
C2_Witness ==
    /\ Called
    /\ \E w \in Range(snatchableWords) :
          /\ Count(snatchableWords, w) >= 2
          /\ Count(SourceWords(dictionaryFile.lines), w) = 1

\* ------------------------------------------------------------------------
\* C3: for an empty or one-word input the solver returns an empty sequence
\* and raises nothing.
\* ------------------------------------------------------------------------
C3_EmptyForFewerThanTwoWords ==
    (Called /\ Len(boardWords) <= 1) =>
        /\ snatchableWords = <<>>
        /\ what = "none"

\* the single word of the input is itself a dictionary word
C3_Witness ==
    /\ Called
    /\ Len(boardWords) = 1
    /\ boardWords[1] \in Range(SourceWords(dictionaryFile.lines))

\* ------------------------------------------------------------------------
\* C4: every returned string has at least three characters.
\* ------------------------------------------------------------------------
C4_ResultsHaveThreeLetters ==
    \A i \in DOMAIN snatchableWords : Len(snatchableWords[i]) >= MinWordLen

\* the file has a two-letter line whose letters are those of two one-letter
\* board words, and the solver still returned something
C4_Witness ==
    /\ Called
    /\ snatchableWords # <<>>
    /\ \E l \in Range(dictionaryFile.lines) :
          /\ Len(l) = 2
          /\ \E S \in PositionSets(Len(boardWords)) :
                /\ \A i \in S : Len(boardWords[i]) = 1
                /\ SameLetters([ c \in DOMAIN l |-> toupper(l[c]) ], boardWords, S)

\* ------------------------------------------------------------------------
\* C5: for n input words the solver examines 2^n - n - 1 subsets, one for
\* each set of at least two positions; equal strings at different positions
\* are different members.
\* ------------------------------------------------------------------------
C5_ExaminesEveryPositionSetOnce ==
    Called =>
        LET n == Len(boardWords)
            sets == PositionSets(n)
            lists == { WordsAt(boardWords, S) : S \in sets }
        IN  /\ Len(powerSetWords) = 2^n - n - 1
            /\ Range(powerSetWords) = lists
            /\ \A l \in lists :
                  Count(powerSetWords, l)
                      = Cardinality({ S \in sets : WordsAt(boardWords, S) = l })

\* the same string stands at two positions and one subset holds both
C5_Witness ==
    /\ Called
    /\ Len(boardWords) >= 3
    /\ boardWords[1] = boardWords[2]
    /\ \E i \in DOMAIN powerSetWords :
          Count(powerSetWords[i], boardWords[1]) = 2

\* ------------------------------------------------------------------------
\* C6: the list the solver returns is ordered by length and, among words of
\* equal length, alphabetically (README, "Brute-force solver").
\* ------------------------------------------------------------------------
\* a comes no later than b in alphabetical order
RECURSIVE AlphabeticallyBefore(_, _)
AlphabeticallyBefore(a, b) ==
    IF a = <<>> THEN TRUE
    ELSE IF b = <<>> THEN FALSE
    ELSE IF Head(a) # Head(b) THEN Head(a) < Head(b)
    ELSE AlphabeticallyBefore(Tail(a), Tail(b))

\* ordered by length, shortest or longest first, ties alphabetical
OrderedByLengthThenAlphabet(r) ==
    \/ \A i, j \in DOMAIN r :
          i < j => \/ Len(r[i]) < Len(r[j])
                   \/ Len(r[i]) = Len(r[j]) /\ AlphabeticallyBefore(r[i], r[j])
    \/ \A i, j \in DOMAIN r :
          i < j => \/ Len(r[i]) > Len(r[j])
                   \/ Len(r[i]) = Len(r[j]) /\ AlphabeticallyBefore(r[i], r[j])

C6_ResultOrderedByLengthThenAlphabet ==
    Called => OrderedByLengthThenAlphabet(snatchableWords)

\* ------------------------------------------------------------------------
\* C7: in the loaded index every key has at least three characters in
\* sorted order, every stored word is the uppercased form of a source line
\* of length >= 3 with the letters of its key, and a shorter source line
\* gives neither a key nor a value.
\* ------------------------------------------------------------------------
IsAscending(k) == \A i \in 1..(Len(k) - 1) : k[i] <= k[i + 1]

HasLettersOf(w, k) == \A c \in AllChars \cup Range(w) \cup Range(k) : Count(w, c) = Count(k, c)

C7_IndexWellFormed ==
    instance =>
        /\ \A k \in DOMAIN sortedStringToAnagrams :
              /\ Len(k) >= MinWordLen
              /\ IsAscending(k)
              /\ \A i \in DOMAIN sortedStringToAnagrams[k] :
                    LET w == sortedStringToAnagrams[k][i]
                    IN  /\ w \in Range(SourceWords(dictionaryFile.lines))
                        /\ HasLettersOf(w, k)
        /\ \A l \in Range(dictionaryFile.lines) :
              Len(l) < MinWordLen =>
                  /\ l \notin DOMAIN sortedStringToAnagrams
                  /\ \A k \in DOMAIN sortedStringToAnagrams :
                        /\ ~HasLettersOf(l, k)
                        /\ l \notin Range(sortedStringToAnagrams[k])

\* the file had a two-letter line and a line with lower-case letters that
\* was indexed
C7_Witness ==
    /\ instance
    /\ \E l \in Range(dictionaryFile.lines) : Len(l) = 2
    /\ \E l \in Range(dictionaryFile.lines) :
          /\ Len(l) >= MinWordLen
          /\ \E i \in DOMAIN l : l[i] >= 97
          /\ \E k \in DOMAIN sortedStringToAnagrams :
                \E i \in DOMAIN sortedStringToAnagrams[k] :
                    sortedStringToAnagrams[k][i] # l

\* ------------------------------------------------------------------------
\* C8: a word that k source lines of length >= 3 uppercase to is k times in
\* its bucket, and every matching subset adds k copies of it to the result.
\* ------------------------------------------------------------------------
C8_DuplicatesRetained ==
    /\ instance =>
          \A w \in Range(SourceWords(dictionaryFile.lines)) :
              \E k \in DOMAIN sortedStringToAnagrams :
                  /\ HasLettersOf(w, k)
                  /\ Count(sortedStringToAnagrams[k], w)
                         = Count(SourceWords(dictionaryFile.lines), w)
    /\ Called =>
          \A w \in Range(SourceWords(dictionaryFile.lines)) :
              Count(snatchableWords, w)
                  = Count(SourceWords(dictionaryFile.lines), w)
                        * Cardinality(MatchingSets(w, boardWords))

\* two lines that differ only in case give two copies in the result
C8_Witness ==
    /\ Called
    /\ Len(dictionaryFile.lines) = 2
    /\ dictionaryFile.lines[1] # dictionaryFile.lines[2]
    /\ Len(SourceWords(dictionaryFile.lines)) = 2
    /\ SourceWords(dictionaryFile.lines)[1] = SourceWords(dictionaryFile.lines)[2]
    /\ Count(snatchableWords, SourceWords(dictionaryFile.lines)[1]) >= 2

\* ------------------------------------------------------------------------
\* C9: when the dictionary file cannot be opened the construction throws:
\* no instance exists, no query is answered, and main returns -1 from
\* initialize before a frame is processed; an instance that exists holds
\* the index of the whole file.
\* ------------------------------------------------------------------------
C9_FailedLoadIsFatal ==
    /\ ~dictionaryFile.isOpen =>
          /\ ~instance
          /\ mainPc \notin { "loop", "processFrame" }
          /\ mainPc = "returned" => (exitCode = -1 /\ what # "none")
    /\ what = "Cannot open dictionary file." =>
          /\ ~dictionaryFile.isOpen
          /\ mainPc = "returned"
          /\ exitCode = -1
    /\ instance =>
          /\ dictionaryFile.isOpen
          /\ \A w \in Range(SourceWords(dictionaryFile.lines)) :
                \E k \in DOMAIN sortedStringToAnagrams :
                    w \in Range(sortedStringToAnagrams[k])

\* main has returned -1 with the constructor's error
C9_Witness ==
    /\ ~dictionaryFile.isOpen
    /\ what = "Cannot open dictionary file."
    /\ mainPc = "returned"
    /\ exitCode = -1

\* ------------------------------------------------------------------------
\* C10: no call of generateSnatchableWords changes the index of the
\* constructed instance (no key added by a failed lookup, no bucket
\* changed), and the caller's word list is as it was passed.
\* ------------------------------------------------------------------------
C10_SolverLeavesIndexAndInput ==
    [][ /\ instance => sortedStringToAnagrams' = sortedStringToAnagrams
        /\ Called' => words' = boardWords' ]_vars

\* a call has looked up a key the index has and a key it does not have
C10_Witness ==
    /\ Called
    /\ \E i \in DOMAIN powerSetWords :
          SubsetKey(powerSetWords[i]) \in DOMAIN sortedStringToAnagrams
    /\ \E i \in DOMAIN powerSetWords :
          SubsetKey(powerSetWords[i]) \notin DOMAIN sortedStringToAnagrams

\* ---------------------------------------------------------------------------
\* letter_node.h, letter_node_utils.h: letter nodes and the graph over them
\* ---------------------------------------------------------------------------

\* longest sequence of letter nodes handed to createLetterNodeGraph
MaxNodes == 3

\* LetterNode{letter, RotatedRect{center, size, angle}}
LetterNode(letter, center) ==
    [ letter |-> letter, center |-> center, size |-> << 0, 0 >>, angle |-> 0 ]

\* two nodes at one centre and a third elsewhere that repeats a letter
a == LetterNode(65, << 0, 0 >>)
b == LetterNode(66, << 0, 0 >>)
c == LetterNode(65, << 1, 1 >>)

NodePool == { a, b, c }

\* the vectors of letter nodes
NodeSeqs == SeqsUpTo(NodePool, MaxNodes)

AllPairs == NodePool \X NodePool

\* pairs that relate the two nodes at one centre in both directions, every
\* node to itself, and b to c in one direction only
SomePairs == { << a, a >>, << a, b >>, << b, a >>, << b, b >>, << c, c >>, << b, c >> }

\* the predicates bool (*)(LetterNode, LetterNode) tried: the pairs it returns
\* true on and the pair (at most one) it throws on
Predicates ==
    { [ holds |-> h, throwsOn |-> {} ] : h \in (SUBSET SomePairs) \cup { AllPairs } }
    \cup { [ holds |-> AllPairs \ { p }, throwsOn |-> { p } ] : p \in AllPairs }
    \cup { [ holds |-> {}, throwsOn |-> { p } ] : p \in AllPairs }

\* isAdjacent(u, v) for a predicate whose exception is swallowed
CallNoThrow(pred, u, v) ==
    IF << u, v >> \in pred.throwsOn THEN "false"
    ELSE IF << u, v >> \in pred.holds THEN "true" ELSE "false"

\* isAdjacent(u, v): "true", "false" or "throws"
Call(pred, u, v) ==
    IF << u, v >> \in pred.throwsOn THEN "throws"
    ELSE IF << u, v >> \in pred.holds THEN "true" ELSE "false"

\* graph[u] = { v }: the neighbours so far are lost
InsertReplacing(g, u, v) ==
    [ x \in DOMAIN g \cup { u } |-> IF x = u THEN { v } ELSE g[x] ]

\* graph[u].insert(v): operator[] creates the key when it is missing
Insert(g, u, v) ==
    [ x \in DOMAIN g \cup { u } |->
        IF x = u THEN (IF u \in DOMAIN g THEN g[u] ELSE {}) \cup { v }
        ELSE g[x] ]

\* only graph[u].insert(v)
InsertEdgeOneWay(g, u, v) == Insert(g, u, v)

\* graph[u].insert(v); graph[v].insert(u);
InsertEdge(g, u, v) == Insert(Insert(g, u, v), v, u)

\* the inner loop without the node of the outer loop
InnerLoopWithoutSelf(nodes, i) == { j \in DOMAIN nodes : j # i }

\* for (const LetterNode& v : letterNodes): the positions the inner loop visits
InnerLoop(nodes, i) == DOMAIN nodes

\* the body of the loops for the pair (nodes[i], nodes[j]); acc is the call so
\* far: [thrown, graph, evaluations]
VisitPair(acc, pred, nodes, i, j) ==
    IF acc.thrown \/ j \notin InnerLoop(nodes, i) THEN acc
    ELSE LET u == nodes[i]
             v == nodes[j]
             r == Call(pred, u, v)
             evaluated == Append(acc.evaluations, << u, v >>)
         IN  IF r = "throws"
             THEN [ acc EXCEPT !.thrown = TRUE, !.evaluations = evaluated ]
             ELSE IF r = "true"
             THEN [ acc EXCEPT !.graph = InsertEdge(acc.graph, u, v),
                               !.evaluations = evaluated ]
             ELSE [ acc EXCEPT !.evaluations = evaluated ]

\* the two loops from the k-th pair on, in row-major order
RECURSIVE VisitPairsFrom(_, _, _, _)
VisitPairsFrom(acc, pred, nodes, k) ==
    LET n == Len(nodes)
    IN  IF k >= n * n THEN acc
        ELSE VisitPairsFrom(VisitPair(acc, pred, nodes, (k \div n) + 1, (k % n) + 1),
                            pred, nodes, k + 1)

\* createLetterNodeGraph(letterNodes, isAdjacent)
createLetterNodeGraph(nodes, pred) ==
    VisitPairsFrom([ thrown |-> FALSE, graph |-> EmptyGraph, evaluations |-> <<>> ],
                   pred, nodes, 0)

\* a top-level loop that never skips a key
SkipsKeyNever(u, vis) == FALSE

\* findConnectedComponents: if (visited.contains(u)) continue;
SkipsKey(u, vis) == u \in vis

\* a dfs that never skips a neighbour
SkipsNeighborNever(v, vis) == FALSE

\* dfs: if (visited.contains(v)) continue;
SkipsNeighbor(v, vis) == v \in vis

\* a word carried over from the previous component
KeepWord(w) == w

\* std::string word = "";
FreshWord(w) == <<>>

\* a lookup that takes a missing key for a node without neighbours
AtOrEmpty(g, u) ==
    [ thrown |-> FALSE, value |-> IF u \in DOMAIN g THEN g[u] ELSE {} ]

\* graph.at(u): throws std::out_of_range when u is not a key
At(g, u) ==
    IF u \in DOMAIN g THEN [ thrown |-> FALSE, value |-> g[u] ]
    ELSE [ thrown |-> TRUE, value |-> {} ]

\* a result vector that starts with an empty word
OneEmptyWord == << <<>> >>

\* std::vector<std::string> words{};
NoWords == <<>>

\* the graphs a caller can build by hand: any keys, any neighbour sets
Graphs ==
    UNION { [ K -> SUBSET NodePool ] : K \in SUBSET NodePool }

mainVars == << dictionaryFile, mainPc, exitCode, what, instance,
               sortedStringToAnagrams, solverVars >>

\* createLetterNodeGraph called on some nodes with some predicate
CreateLetterNodeGraph ==
    /\ graphPc = "idle"
    /\ \E nodes \in NodeSeqs :
         \E pred \in Predicates :
           LET r == createLetterNodeGraph(nodes, pred)
           IN  /\ letterNodes' = nodes
               /\ isAdjacent' = pred
               /\ evaluations' = r.evaluations
               /\ IF r.thrown
                  THEN /\ graphPc' = "thrown"
                       /\ graphError' = "isAdjacent"
                       /\ graph' = graph
                  ELSE /\ graphPc' = "built"
                       /\ graphError' = graphError
                       /\ graph' = r.graph
    /\ UNCHANGED << keysLeft, visited, stack, word, componentWords, dfsCalls,
                    returnedWords, mainVars, threadVars, nodeVars >>

\* findConnectedComponents entered on g
FindConnectedComponents(g) ==
    /\ graph' = g
    /\ graphPc' = "components"
    /\ keysLeft' = DOMAIN g
    /\ visited' = {}
    /\ componentWords' = NoWords
    /\ UNCHANGED << letterNodes, isAdjacent, evaluations, graphError, stack, word,
                    dfsCalls, returnedWords, mainVars, threadVars, nodeVars >>

\* TextRecognizer::generateWords passes the graph it built
GenerateWordsFindsComponents ==
    /\ graphPc = "built"
    /\ FindConnectedComponents(graph)

\* a caller passes a graph of its own
CallerFindsComponents ==
    /\ graphPc = "idle"
    /\ \E g \in Graphs : FindConnectedComponents(g)

\* a dfs that leaves the word as it is
AppendNothing(w, u) == w

\* word += u.letter;
AppendLetter(w, u) == Append(w, u.letter)

\* dfs(u, graph, visited, word) entered below the calls stk, with word w
EnterDfs(u, stk, w, calls) ==
    LET r == At(graph, u)
    IN  /\ visited' = visited \cup { u }
        /\ word' = AppendLetter(w, u)
        /\ dfsCalls' = [ calls EXCEPT ![Len(calls)] = Append(@, u) ]
        /\ IF r.thrown
           THEN /\ graphPc' = "failed"
                /\ graphError' = "out_of_range"
                /\ stack' = <<>>
           ELSE /\ graphPc' = graphPc
                /\ graphError' = graphError
                /\ stack' = Append(stk, [ node |-> u, pending |-> r.value ])

\* the keys left that the loop of findConnectedComponents will not skip
KeysToEnter == { u \in keysLeft : ~SkipsKey(u, visited) }

\* the neighbours left in a dfs call that its loop will not skip
NeighborsToEnter(frame) == { v \in frame.pending : ~SkipsNeighbor(v, visited) }

\* for (const auto& x : graph), in whatever order the map has: the iterations
\* up to and including the next key that is not skipped
NextKey ==
    /\ graphPc = "components"
    /\ stack = <<>>
    /\ \E u \in KeysToEnter :
         /\ keysLeft' = KeysToEnter \ { u }
         /\ EnterDfs(u, <<>>, FreshWord(word), Append(dfsCalls, <<>>))
    /\ UNCHANGED << letterNodes, isAdjacent, graph, evaluations, componentWords,
                    returnedWords, mainVars, threadVars, nodeVars >>

\* for (const LetterNode& v : graph.at(u)) in the innermost dfs, in whatever
\* order the set has: the iterations up to and including the next neighbour
\* that is not skipped
DfsNextNeighbor ==
    /\ graphPc = "components"
    /\ stack # <<>>
    /\ LET top == stack[Len(stack)]
           rest == SubSeq(stack, 1, Len(stack) - 1)
       IN  \E v \in NeighborsToEnter(top) :
             EnterDfs(v, Append(rest, [ top EXCEPT !.pending = NeighborsToEnter(top) \ { v } ]),
                      word, dfsCalls)
    /\ UNCHANGED << letterNodes, isAdjacent, graph, evaluations, keysLeft,
                    componentWords, returnedWords, mainVars, threadVars, nodeVars >>

\* the innermost dfs skips what is left and returns; words.push_back(word)
\* follows the return of the outermost dfs
DfsReturns ==
    /\ graphPc = "components"
    /\ stack # <<>>
    /\ NeighborsToEnter(stack[Len(stack)]) = {}
    /\ stack' = SubSeq(stack, 1, Len(stack) - 1)
    /\ componentWords' =
           IF Len(stack) = 1 THEN Append(componentWords, word) ELSE componentWords
    /\ UNCHANGED << letterNodes, isAdjacent, graph, evaluations, graphError,
                    graphPc, keysLeft, visited, word, dfsCalls, returnedWords,
                    mainVars, threadVars, nodeVars >>

\* the loop skips the keys left; return words;
ReturnWords ==
    /\ graphPc = "components"
    /\ stack = <<>>
    /\ KeysToEnter = {}
    /\ graphPc' = "done"
    /\ returnedWords' = componentWords
    /\ keysLeft' = {}
    /\ UNCHANGED << letterNodes, isAdjacent, graph, evaluations, graphError,
                    visited, stack, word, componentWords, dfsCalls,
                    mainVars, threadVars, nodeVars >>

InitGraph ==
    /\ Init
    /\ ~dictionaryFile.isOpen

NextGraph ==
    \/ CreateLetterNodeGraph
    \/ GenerateWordsFindsComponents
    \/ CallerFindsComponents
    \/ NextKey
    \/ DfsNextNeighbor
    \/ DfsReturns
    \/ ReturnWords

SpecGraph == InitGraph /\ [][NextGraph]_vars

\* the calling thread keeps running until the call returns or throws
FairSpecGraph == SpecGraph /\ WF_vars(NextGraph)

\* ---------------------------------------------------------------------------
\* vocabulary of the graph properties
\* ---------------------------------------------------------------------------

\* the neighbours of u in g; none when u is not a key
Neighbors(g, u) == IF u \in DOMAIN g THEN g[u] ELSE {}

\* every neighbour is a key
IsClosed(g) == \A u \in DOMAIN g : g[u] \subseteq DOMAIN g

\* v is a neighbour of u exactly when u is a neighbour of v
IsSymmetric(g) == \A u \in DOMAIN g : \A v \in g[u] : u \in Neighbors(g, v)

\* the nodes reachable from S along the edges of g
RECURSIVE ReachableFrom(_, _)
ReachableFrom(g, S) ==
    LET T == S \cup UNION { Neighbors(g, x) : x \in S }
    IN  IF T = S THEN S ELSE ReachableFrom(g, T)

\* the connected components of a symmetric closed graph
Components(g) == { ReachableFrom(g, { u }) : u \in DOMAIN g }

\* the letters of the nodes in S, as often as nodes carry them
LettersOfNodes(S) == [ ch \in AllChars |-> Cardinality({ u \in S : u.letter = ch }) ]

\* the letters of the word w, as often as they occur
LettersOfWord(w) == [ ch \in AllChars |-> Count(w, ch) ]

\* the pairs the two loops reach, in the order they reach them
PairsInOrder(nodes) ==
    [ k \in 1..(Len(nodes) * Len(nodes)) |->
        << nodes[((k - 1) \div Len(nodes)) + 1], nodes[((k - 1) % Len(nodes)) + 1] >> ]

\* the nodes dfs was entered on, over the whole call
RECURSIVE Flatten(_)
Flatten(ss) == IF ss = <<>> THEN <<>> ELSE Head(ss) \o Flatten(Tail(ss))

AlwaysTrue == [ holds |-> AllPairs, throwsOn |-> {} ]

\* the predicate that compares the centres
SameCenter ==
    [ holds |-> { p \in AllPairs : p[1].center = p[2].center }, throwsOn |-> {} ]

\* C12: in the graph createLetterNodeGraph returns, v is a neighbour of u
\* exactly when both are among the nodes given and isAdjacent(u, v) or
\* isAdjacent(v, u) holds, u = v included; for a, b at one centre and c at
\* another under the comparison of centres the graph has three keys with
\* neighbours {a, b}, {a, b} and {c}.
C12_NeighborsIffAdjacentEitherWay ==
    graphPc = "built" =>
        /\ \A u \in NodePool : \A v \in NodePool :
             v \in Neighbors(graph, u)
             <=> /\ u \in Range(letterNodes)
                 /\ v \in Range(letterNodes)
                 /\ << u, v >> \in isAdjacent.holds \/ << v, u >> \in isAdjacent.holds
        /\ (Range(letterNodes) = NodePool /\ isAdjacent = SameCenter)
             => /\ DOMAIN graph = { a, b, c }
                /\ graph[a] = { a, b }
                /\ graph[b] = { a, b }
                /\ graph[c] = { c }

C12_Witness ==
    /\ graphPc = "built"
    /\ letterNodes = << a, b, c >>
    /\ isAdjacent = SameCenter
    /\ graph[a] = { a, b }
    /\ graph[c] = { c }

\* C13: every node given to createLetterNodeGraph is a key of the graph it
\* returns, whatever the predicate; a node adjacent to nothing, itself
\* included, is a key with an empty set of neighbours.
C13_EveryNodeIsAKey ==
    graphPc = "built" =>
        \A u \in Range(letterNodes) :
            /\ u \in DOMAIN graph
            /\ (\A v \in Range(letterNodes) :
                    << u, v >> \notin isAdjacent.holds /\ << v, u >> \notin isAdjacent.holds)
                 => graph[u] = {}

\* C14: createLetterNodeGraph on no nodes returns a graph without keys and never
\* calls the predicate, whatever the predicate; findConnectedComponents on the
\* graph without keys returns no words; neither fails.
C14_EmptyInEmptyOut ==
    /\ (graphPc \in { "built", "thrown" } /\ letterNodes = <<>>)
         => /\ graphPc = "built"
            /\ DOMAIN graph = {}
            /\ evaluations = <<>>
            /\ graphError = "none"
    /\ (graphPc \in { "components", "done", "failed" } /\ DOMAIN graph = {})
         => /\ graphPc # "failed"
            /\ graphError = "none"
            /\ componentWords = <<>>
            /\ graphPc = "done" => returnedWords = <<>>

C14_Witness ==
    /\ graphPc = "done"
    /\ letterNodes = <<>>
    /\ isAdjacent = AlwaysTrue
    /\ evaluations = <<>>
    /\ DOMAIN graph = {}
    /\ returnedWords = <<>>

\* no node occurs twice in the sequence
PairwiseDistinct(nodes) ==
    \A i \in DOMAIN nodes : \A j \in DOMAIN nodes : i # j => nodes[i] # nodes[j]

\* C15: for a predicate that is always true and n >= 1 pairwise distinct nodes,
\* createLetterNodeGraph returns the complete graph over them, every node its
\* own neighbour too, and findConnectedComponents returns exactly one word,
\* whose letters are the letters of the n nodes.
C15_AlwaysTrueGivesOneWord ==
    (letterNodes # <<>> /\ PairwiseDistinct(letterNodes) /\ isAdjacent = AlwaysTrue)
    => /\ graphPc \in { "built", "components", "done" }
       /\ graph = [ u \in Range(letterNodes) |-> Range(letterNodes) ]
       /\ graphPc = "done"
            => /\ Len(returnedWords) = 1
               /\ LettersOfWord(returnedWords[1]) = LettersOfNodes(Range(letterNodes))

C15_Witness ==
    /\ graphPc = "done"
    /\ isAdjacent = AlwaysTrue
    /\ Range(letterNodes) = NodePool
    /\ Len(letterNodes) = 3
    /\ Len(returnedWords) = 1
    /\ Len(returnedWords[1]) = 3

\* C16: on a symmetric closed graph, in whatever order keys and neighbours are
\* iterated, findConnectedComponents returns as many words as the graph has
\* connected components, every key contributes its letter exactly once, and
\* the lengths of the words add up to the number of keys.
C16_WordsCountComponents ==
    (graphPc \in { "components", "done", "failed" } /\ IsSymmetric(graph) /\ IsClosed(graph))
    => /\ graphPc # "failed"
       /\ graphPc = "done"
            => /\ Len(returnedWords) = Cardinality(Components(graph))
               /\ \A u \in DOMAIN graph : Count(Flatten(dfsCalls), u) = 1
               /\ LettersOfWord(Flatten(returnedWords)) = LettersOfNodes(DOMAIN graph)
               /\ Len(Flatten(returnedWords)) = Cardinality(DOMAIN graph)

C16_Witness ==
    /\ graphPc = "done"
    /\ IsSymmetric(graph)
    /\ DOMAIN graph = NodePool
    /\ Cardinality(Components(graph)) = 2
    /\ Len(returnedWords) = 2

\* C17: on a symmetric closed graph every word returned belongs to one
\* connected component and every component to one word, and the letters of the
\* word are exactly the letters of the nodes of its component.
C17_WordsAreComponents ==
    (graphPc = "done" /\ IsSymmetric(graph) /\ IsClosed(graph))
    => \E f \in [ DOMAIN returnedWords -> Components(graph) ] :
         /\ \A i \in DOMAIN f : \A j \in DOMAIN f : f[i] = f[j] => i = j
         /\ \A comp \in Components(graph) : \E i \in DOMAIN f : f[i] = comp
         /\ \A i \in DOMAIN f :
              LettersOfWord(returnedWords[i]) = LettersOfNodes(f[i])

C17_Witness ==
    /\ graphPc = "done"
    /\ IsSymmetric(graph)
    /\ Components(graph) = { { a, b }, { c } }
    /\ Len(returnedWords) = 2
    /\ Len(returnedWords[2]) = 2

\* C18: on a closed graph, self-loops and cycles included, findConnectedComponents
\* returns; dfs is entered at most once per key, so at most as often as there
\* are keys.
C18_TerminatesEnteringEachKeyOnce ==
    /\ [](IsClosed(graph)
            => /\ \A u \in NodePool : Count(Flatten(dfsCalls), u) <= 1
               /\ Len(Flatten(dfsCalls)) <= Cardinality(DOMAIN graph)
               /\ graphPc # "failed")
    /\ (graphPc = "components" /\ IsClosed(graph)) ~> (graphPc = "done")

C18_Witness ==
    /\ graphPc = "done"
    /\ graph = [ u \in NodePool |-> NodePool ]
    /\ Len(Flatten(dfsCalls)) = 3

\* C19: on a graph with a neighbour that is not a key, findConnectedComponents
\* fails with the lookup error of the map once the traversal reaches that
\* neighbour and returns nothing, not even the words it had completed; it
\* never skips the neighbour.
C19_MissingKeyFails ==
    /\ [](/\ graphPc = "done" => IsClosed(graph)
          /\ graphPc = "failed"
               => /\ graphError = "out_of_range"
                  /\ returnedWords = "none"
                  /\ Flatten(dfsCalls)[Len(Flatten(dfsCalls))] \notin DOMAIN graph
                  /\ \A i \in 1..(Len(Flatten(dfsCalls)) - 1) :
                       Flatten(dfsCalls)[i] \in DOMAIN graph)
    /\ (graphPc = "components" /\ ~IsClosed(graph)) ~> (graphPc = "failed")

C19_Witness ==
    /\ graphPc = "failed"
    /\ graphError = "out_of_range"
    /\ componentWords # <<>>
    /\ returnedWords = "none"

\* C20: when the predicate throws on a pair, createLetterNodeGraph stops at that
\* pair: the exception reaches the caller, no graph is returned and no later
\* pair is evaluated; when it throws on no pair reached, every pair is evaluated.
C20_PredicateErrorPropagates ==
    graphPc \in { "built", "thrown" } =>
        LET pairs == PairsInOrder(letterNodes)
            throwing == { k \in DOMAIN pairs : pairs[k] \in isAdjacent.throwsOn }
        IN  IF throwing = {}
            THEN /\ graphPc = "built"
                 /\ graphError = "none"
                 /\ evaluations = pairs
            ELSE LET first == CHOOSE k \in throwing : \A l \in throwing : k <= l
                 IN  /\ graphPc = "thrown"
                     /\ graphError = "isAdjacent"
                     /\ evaluations = SubSeq(pairs, 1, first)
                     /\ DOMAIN graph = {}
                     /\ returnedWords = "none"

C20_Witness ==
    /\ graphPc = "thrown"
    /\ graphError = "isAdjacent"
    /\ Len(evaluations) >= 2
    /\ Len(evaluations) < Len(letterNodes) * Len(letterNodes)
    /\ evaluations[1] \in isAdjacent.holds
    /\ DOMAIN graph = {}

\* ---------------------------------------------------------------------------
\* snatchable_word_generator.h: first calls of getInstance from several threads
\* ---------------------------------------------------------------------------

\* threads that call getInstance
MaxThreads == 2

Threads == 1..MaxThreads

\* a static whose initialization is not guarded against other threads
GuardUnsafe(constructed, holder) ==
    IF constructed THEN "return" ELSE "construct"

\* static SnatchableWordGenerator instance; what a thread that reaches the
\* declaration does: the first one constructs, one that arrives during the
\* construction waits for it, later ones use the instance
Guard(constructed, holder) ==
    IF constructed THEN "return"
    ELSE IF holder # 0 THEN "wait"
    ELSE "construct"

\* thread t calls getInstance and reaches the declaration of the static, for
\* the first time or after it waited
ThreadCalls(t) ==
    /\ threadPc[t] \in { "start", "woken" }
    /\ LET g == Guard(instance, constructing)
       IN  IF g = "return"
           THEN /\ threadPc' = [ threadPc EXCEPT ![t] = "ready" ]
                /\ got' = [ got EXCEPT ![t] = loads ]
                /\ UNCHANGED << constructing, linesRead, sortedStringToAnagrams >>
           ELSE IF g = "wait"
           THEN /\ threadPc' = [ threadPc EXCEPT ![t] = "waiting" ]
                /\ UNCHANGED << got, constructing, linesRead, sortedStringToAnagrams >>
           ELSE IF Constructor(dictionaryFile).thrown
           THEN /\ threadPc' = [ threadPc EXCEPT ![t] = "threw" ]
                /\ UNCHANGED << got, constructing, linesRead, sortedStringToAnagrams >>
           ELSE /\ threadPc' = [ threadPc EXCEPT ![t] = "constructing" ]
                /\ constructing' = t
                /\ linesRead' = [ linesRead EXCEPT ![t] = 0 ]
                /\ sortedStringToAnagrams' = EmptyIndex
                /\ got' = got
    /\ UNCHANGED << dictionaryFile, mainPc, exitCode, what, instance, solverVars,
                    loads, seenIndex, graphVars, nodeVars >>

\* one iteration of while (std::getline(infile, word)) in the constructor
\* thread t runs
ConstructorReadsLine(t) ==
    /\ threadPc[t] = "constructing"
    /\ linesRead[t] < Len(dictionaryFile.lines)
    /\ linesRead' = [ linesRead EXCEPT ![t] = @ + 1 ]
    /\ sortedStringToAnagrams' =
           LoadLine(sortedStringToAnagrams, dictionaryFile.lines[linesRead[t] + 1])
    /\ UNCHANGED << dictionaryFile, mainPc, exitCode, what, instance, solverVars,
                    threadPc, constructing, loads, got, seenIndex, graphVars, nodeVars >>

\* getline fails at the end of the file: the constructor returns, the static is
\* initialized and getInstance returns it
ConstructorReturns(t) ==
    /\ threadPc[t] = "constructing"
    /\ linesRead[t] = Len(dictionaryFile.lines)
    /\ instance' = TRUE
    /\ constructing' = IF constructing = t THEN 0 ELSE constructing
    /\ loads' = loads + 1
    /\ got' = [ got EXCEPT ![t] = loads + 1 ]
    /\ threadPc' = [ threadPc EXCEPT ![t] = "ready" ]
    /\ UNCHANGED << dictionaryFile, mainPc, exitCode, what, sortedStringToAnagrams,
                    solverVars, linesRead, seenIndex, graphVars, nodeVars >>

\* the construction thread t waited for is over: t looks at the static again
GuardReleased(t) ==
    /\ threadPc[t] = "waiting"
    /\ constructing = 0
    /\ threadPc' = [ threadPc EXCEPT ![t] = "woken" ]
    /\ UNCHANGED << dictionaryFile, mainPc, exitCode, what, instance,
                    sortedStringToAnagrams, solverVars, constructing, linesRead,
                    loads, got, seenIndex, graphVars, nodeVars >>

\* the boards the threads ask about: three words of one letter
ThreadBoards == { board \in BoardsOfTiles(3) : Len(board) = 3 }

\* thread t calls generateSnatchableWords on the instance it got
ThreadQueries(t) ==
    /\ threadPc[t] = "ready"
    /\ \E board \in ThreadBoards :
         LET r == generateSnatchableWords(board, sortedStringToAnagrams)
         IN  /\ seenIndex' = [ seenIndex EXCEPT ![t] = << r.index >> ]
             /\ sortedStringToAnagrams' = r.index
    /\ threadPc' = [ threadPc EXCEPT ![t] = "queried" ]
    /\ UNCHANGED << dictionaryFile, mainPc, exitCode, what, instance, solverVars,
                    constructing, linesRead, loads, got, graphVars, nodeVars >>

InitThreads ==
    /\ MainInit
    /\ GraphIdle
    /\ NodesIdle
    /\ threadPc = [ t \in Threads |-> "start" ]
    /\ constructing = 0
    /\ linesRead = [ t \in Threads |-> 0 ]
    /\ loads = 0
    /\ got = [ t \in Threads |-> 0 ]
    /\ seenIndex = [ t \in Threads |-> <<>> ]

NextThreads ==
    \E t \in Threads :
        \/ ThreadCalls(t)
        \/ ConstructorReadsLine(t)
        \/ ConstructorReturns(t)
        \/ GuardReleased(t)
        \/ ThreadQueries(t)

SpecThreads == InitThreads /\ [][NextThreads]_vars

\* the index of the whole dictionary file
LoadedIndex == LoadLines(EmptyIndex, dictionaryFile.lines)

\* C11: when several threads call getInstance for the first time at once, the
\* dictionary is loaded once, every caller gets the instance of that one
\* construction, and generateSnatchableWords never runs on an index that is
\* still being built.
C11_ConcurrentFirstCallsLoadOnce ==
    /\ loads <= 1
    /\ Cardinality({ t \in Threads : threadPc[t] = "constructing" }) <= 1
    /\ \A t \in Threads :
         threadPc[t] \in { "ready", "queried" }
         => /\ loads = 1
            /\ got[t] = 1
            /\ instance
            /\ constructing = 0
            /\ sortedStringToAnagrams = LoadedIndex
    /\ \A t \in Threads :
         threadPc[t] = "queried" => seenIndex[t] = << LoadedIndex >>

C11_Witness ==
    /\ threadPc[1] = "queried"
    /\ threadPc[2] = "woken"
    /\ Len(dictionaryFile.lines) = 2
    /\ seenIndex[1] = << LoadedIndex >>
    /\ DOMAIN LoadedIndex # {}

\* ---------------------------------------------------------------------------
\* further properties of the graph utilities
\* ---------------------------------------------------------------------------

\* the predicate holds on (u, v) but not on (v, u) for two of the nodes given
AsymmetricOnNodes ==
    \E u \in Range(letterNodes) : \E v \in Range(letterNodes) :
        << u, v >> \in isAdjacent.holds /\ << v, u >> \notin isAdjacent.holds

\* the predicate holds on (u, u) for every node given
ReflexiveOnNodes ==
    \A u \in Range(letterNodes) : << u, u >> \in isAdjacent.holds

\* the graph was built by createLetterNodeGraph from at least one evaluation
BuiltFromNodes == evaluations # <<>> /\ graphPc \in { "built", "components", "done", "failed" }

\* C25: the graph createLetterNodeGraph returns is symmetric for every predicate,
\* also one that is not symmetric: u in neighbors(v) implies v in neighbors(u).
C25_BuiltGraphSymmetric ==
    graphPc = "built" =>
        \A u \in DOMAIN graph : \A v \in graph[u] : u \in Neighbors(graph, v)

C25_Witness ==
    /\ graphPc = "built"
    /\ AsymmetricOnNodes
    /\ Cardinality(DOMAIN graph) = 3
    /\ \E u \in DOMAIN graph : Cardinality(graph[u]) = 3

\* C26: every graph createLetterNodeGraph returns is closed, every neighbour is a
\* key, so findConnectedComponents on it, as generateWords calls it, never
\* fails with a lookup error, whatever the nodes and the predicate.
C26_BuiltGraphClosed ==
    /\ graphPc = "built" => IsClosed(graph)
    /\ BuiltFromNodes => (graphPc # "failed" /\ graphError = "none" /\ IsClosed(graph))

C26_Witness ==
    /\ graphPc = "done"
    /\ BuiltFromNodes
    /\ AsymmetricOnNodes
    /\ Cardinality(DOMAIN graph) >= 2
    /\ Len(returnedWords) = 1

\* C27: equal nodes that occur more than once in the sequence given to
\* createLetterNodeGraph are one key: under a predicate that holds on every
\* (u, u) the graph has as many keys as there are distinct nodes, and the words
\* extracted from it have one letter per distinct node.
C27_DuplicatesAreOneKey ==
    (BuiltFromNodes /\ ReflexiveOnNodes)
    => /\ DOMAIN graph = Range(letterNodes)
       /\ graphPc = "done"
            => /\ Len(Flatten(returnedWords)) = Cardinality(Range(letterNodes))
               /\ LettersOfWord(Flatten(returnedWords)) = LettersOfNodes(Range(letterNodes))

C27_Witness ==
    /\ graphPc = "done"
    /\ ReflexiveOnNodes
    /\ Len(letterNodes) = 3
    /\ Cardinality(Range(letterNodes)) = 2
    /\ Len(Flatten(returnedWords)) = 2

\* C28: on a closed graph every word findConnectedComponents returns has at least
\* one letter, so the words generateWords hands on have length >= 1.
C28_WordsNotEmpty ==
    (IsClosed(graph) /\ graphPc \in { "components", "done" })
    => /\ \A i \in DOMAIN componentWords : Len(componentWords[i]) >= 1
       /\ graphPc = "done" => \A i \in DOMAIN returnedWords : Len(returnedWords[i]) >= 1

C28_Witness ==
    /\ graphPc = "done"
    /\ BuiltFromNodes
    /\ Len(returnedWords) = 2
    /\ Len(returnedWords[1]) = 1

\* ---------------------------------------------------------------------------
\* test_letter_node_utils.cpp: the graphs of the tests of findConnectedComponents
\* ---------------------------------------------------------------------------

\* the nodes of the fixture besides a and b: letters C to F on the rectangle of a
nodeC == LetterNode(67, << 0, 0 >>)
nodeD == LetterNode(68, << 0, 0 >>)
nodeE == LetterNode(69, << 0, 0 >>)
nodeF == LetterNode(70, << 0, 0 >>)

\* the graph of the test FullyConnected
FullyConnected == [ u \in { a, b, nodeC } |-> { a, b, nodeC } ]

\* the graph of the test Complex
Complex ==
    [ u \in { a, b, nodeC, nodeD, nodeE, nodeF } |->
        IF u = a THEN { a, b, nodeC }
        ELSE IF u = b THEN { b, a }
        ELSE IF u = nodeC THEN { nodeC, b }
        ELSE IF u = nodeD THEN { nodeD }
        ELSE IF u = nodeE THEN { nodeE, nodeF }
        ELSE { nodeF, nodeE } ]

FixtureGraphs == { FullyConnected, Complex }

\* a test calls findConnectedComponents on its graph
TestFindsComponents ==
    /\ graphPc = "idle"
    /\ \E g \in FixtureGraphs : FindConnectedComponents(g)

NextFixture ==
    \/ TestFindsComponents
    \/ NextKey
    \/ DfsNextNeighbor
    \/ DfsReturns
    \/ ReturnWords

SpecFixture == InitGraph /\ [][NextFixture]_vars

\* the words of ws, each with its letters sorted
SortedWords(ws) == [ i \in DOMAIN ws |-> SortString(ws[i]) ]

Tile(letter, center, size, angle) ==
    [ letter |-> letter, center |-> center, size |-> size, angle |-> angle ]

\* the tiles of the test BoundingBoxAdjacencyStrategy
tileA == Tile(65, << 5, 5 >>, << 10, 10 >>, 0)
tileB == Tile(66, << 15, 5 >>, << 10, 10 >>, 0)
tileC == Tile(67, << 5, 15 >>, << 10, 10 >>, 0)

\* a tile two tile widths right of tileA, a tile without area on tileA, and a
\* tile of 20 x 10 turned by 90 degrees right of tileA
tileFar == Tile(68, << 25, 5 >>, << 10, 10 >>, 0)
tilePoint == Tile(69, << 5, 5 >>, << 0, 0 >>, 0)
tileTurned == Tile(70, << 15, 10 >>, << 20, 10 >>, 90)

Tiles == { tileA, tileB, tileC, tileFar, tilePoint, tileTurned }

\* cos and sin of an angle that is a multiple of 90 degrees
Cos(angle) == IF angle % 360 = 0 THEN 1 ELSE IF angle % 360 = 180 THEN -1 ELSE 0
Sin(angle) == IF angle % 360 = 90 THEN 1 ELSE IF angle % 360 = 270 THEN -1 ELSE 0

\* cv::RotatedRect::points: the four corners, doubled
Points(u) ==
    LET cx == 2 * u.center[1]
        cy == 2 * u.center[2]
        w == u.size[1]
        h == u.size[2]
        co == Cos(u.angle)
        si == Sin(u.angle)
        p0 == << cx - si * h - co * w, cy + co * h - si * w >>
        p1 == << cx + si * h - co * w, cy - co * h - si * w >>
    IN  { p0, p1, << 2 * cx - p0[1], 2 * cy - p0[2] >>,
          << 2 * cx - p1[1], 2 * cy - p1[2] >> }

\* cv::Size2f::area, of the doubled sides
SizeArea(u) == (2 * u.size[1]) * (2 * u.size[2])

Abs(x) == IF x < 0 THEN -x ELSE x

RECURSIVE Gcd(_, _)
Gcd(x, y) == IF y = 0 THEN x ELSE Gcd(y, x % y)

\* the direction from p to q, reduced to lowest terms
Direction(p, q) ==
    LET dx == q[1] - p[1]
        dy == q[2] - p[2]
        g == Gcd(Abs(dx), Abs(dy))
    IN  << dx \div g, dy \div g >>

Dot(p, d) == p[1] * d[1] + p[2] * d[2]

Perp(d) == << -d[2], d[1] >>

SetMax(S) == CHOOSE x \in S : \A y \in S : y <= x
SetMin(S) == CHOOSE x \in S : \A y \in S : x <= y

\* the extent of the points along d, times the length of d
Extent(points, d) ==
    SetMax({ Dot(p, d) : p \in points }) - SetMin({ Dot(p, d) : p \in points })

\* the area num / den of the rectangle with a side along d that encloses the
\* points
EnclosingRect(points, d) ==
    [ num |-> Extent(points, d) * Extent(points, Perp(d)), den |-> Dot(d, d) ]

\* cv::minAreaRect(allPoints).size.area(): the smallest enclosing rectangle has
\* a side along an edge of the convex hull; the area is num / den
MinAreaRect(points) ==
    LET rects == { EnclosingRect(points, Direction(p, q)) :
                     << p, q >> \in { pq \in points \X points : pq[1] # pq[2] } }
    IN  IF rects = {} THEN [ num |-> 0, den |-> 1 ]
        ELSE CHOOSE r \in rects : \A r2 \in rects : r.num * r2.den <= r2.num * r.den

\* the factor in float threshold = 3 * averageTileSize
ThresholdFactor == 3

\* the two areas added up, not averaged
TotalTileSize(u, v) == SizeArea(u) + SizeArea(v)

\* float averageTileSize = 0.5 * (u.rect.size.area() + v.rect.size.area());
AverageTileSize(u, v) == (SizeArea(u) + SizeArea(v)) \div 2

\* boundingBoxAdjacencyStrategy(u, v)
boundingBoxAdjacencyStrategy(u, v) ==
    LET boundingBox == MinAreaRect(Points(u) \cup Points(v))
        threshold == ThresholdFactor * AverageTileSize(u, v)
    IN  boundingBox.num < threshold * boundingBox.den

\* the vectors of letter nodes generateWords builds from the tiles of a frame
TileSeqs == SeqsUpTo(Tiles, MaxNodes)

\* LetterNodeUtils::boundingBoxAdjacencyStrategy as the predicate passed
BoundingBoxPredicate ==
    [ holds |-> { p \in Tiles \X Tiles : boundingBoxAdjacencyStrategy(p[1], p[2]) },
      throwsOn |-> {} ]

\* TextRecognizer::generateWords builds the graph of the letters it recognized
GenerateWordsBuildsGraph ==
    /\ graphPc = "idle"
    /\ \E nodes \in TileSeqs :
         LET r == createLetterNodeGraph(nodes, BoundingBoxPredicate)
         IN  /\ letterNodes' = nodes
             /\ isAdjacent' = BoundingBoxPredicate
             /\ evaluations' = r.evaluations
             /\ graph' = r.graph
             /\ graphPc' = "built"
    /\ UNCHANGED << graphError, keysLeft, visited, stack, word, componentWords,
                    dfsCalls, returnedWords, mainVars, threadVars, nodeVars >>

NextTiles ==
    \/ GenerateWordsBuildsGraph
    \/ GenerateWordsFindsComponents
    \/ NextKey
    \/ DfsNextNeighbor
    \/ DfsReturns
    \/ ReturnWords

SpecTiles == InitGraph /\ [][NextTiles]_vars

\* directions a rectangle that encloses the corners may have
GridDirections == { d \in (0..2) \X (-2..2) : d # << 0, 0 >> }

\* some rectangle that encloses the corners of u and v has an area strictly
\* below three times the mean of the areas of u and v
EnclosedBelowThreeMeans(u, v) ==
    \E d \in GridDirections :
        LET r == EnclosingRect(Points(u) \cup Points(v), d)
        IN  2 * r.num < 3 * (SizeArea(u) + SizeArea(v)) * r.den

\* C21: boundingBoxAdjacencyStrategy(u, v) is true exactly when the smallest
\* rectangle that encloses the eight corners has an area strictly below three
\* times the mean of the two areas; of the 10 x 10 tiles A at (5,5), B at (15,5)
\* and C at (5,15), A and B are adjacent, A and C are adjacent, C and B are not.
C21_AdjacentIffEnclosedBelowThreeMeans ==
    graphPc = "built" =>
        /\ \A u \in Range(letterNodes) : \A v \in Range(letterNodes) :
             /\ << u, v >> \in isAdjacent.holds <=> EnclosedBelowThreeMeans(u, v)
             /\ v \in Neighbors(graph, u)
                  <=> EnclosedBelowThreeMeans(u, v) \/ EnclosedBelowThreeMeans(v, u)
        /\ { tileA, tileB, tileC } \subseteq Range(letterNodes)
             => /\ tileB \in graph[tileA]
                /\ tileC \in graph[tileA]
                /\ tileB \notin graph[tileC]
                /\ tileC \notin graph[tileB]

C21_Witness ==
    /\ graphPc = "built"
    /\ letterNodes = << tileA, tileB, tileC >>
    /\ graph[tileA] = { tileA, tileB, tileC }
    /\ graph[tileB] = { tileA, tileB }
    /\ graph[tileC] = { tileA, tileC }

\* ---------------------------------------------------------------------
\* Equality and hash of letter nodes (letter_node.h), and the hashed
\* containers keyed by them (the keys of the graph, the visited set)
\* ---------------------------------------------------------------------

\* how many insertions into one container are explored
MaxInserted == 2

\* how many buckets the container has; few, so that unequal nodes collide
MaxBuckets == 3

\* the observations of the tests Equals and Hash (A1, B1, A2) and their
\* variations in size and angle
Observations ==
    { Tile(l, ctr, sz, ang) : l \in { 65, 66 },
                              ctr \in { << 100, 50 >>, << 200, 100 >> },
                              sz \in { << 10, 10 >>, << 10, 20 >> },
                              ang \in { 0, 90 } }

A1 == Tile(65, << 100, 50 >>, << 10, 10 >>, 0)
B1 == Tile(66, << 100, 50 >>, << 10, 10 >>, 0)
A2 == Tile(65, << 200, 100 >>, << 10, 10 >>, 0)

EqualsIgnoringAngle(u, v) ==
    /\ u.letter = v.letter
    /\ u.center = v.center
    /\ u.size = v.size

\* LetterNode::operator==
Equals(u, v) ==
    /\ u.letter = v.letter
    /\ u.center = v.center
    /\ u.size = v.size
    /\ u.angle = v.angle

\* operator^ of std::size_t
RECURSIVE Xor(_, _)
Xor(x, y) ==
    IF x = 0 THEN y
    ELSE IF y = 0 THEN x
    ELSE (((x % 2) + (y % 2)) % 2) + 2 * Xor(x \div 2, y \div 2)

\* operator<< of std::size_t
ShiftLeft(x, k) == x * 2 ^ k

\* std::hash<float> is the implementation's: one that keeps the value, one
\* that sends every value to one hash, one that mixes
FloatHashes == { "truncated", "constant", "mixed" }

HashFloat(x) ==
    CASE hashOfFloat = "truncated" -> x
      [] hashOfFloat = "mixed" -> (x * 31 + 7) % 64
      [] OTHER -> 0

\* std::hash<char>
HashChar(l) == l

\* std::hash<LetterNode>::operator()
Hash(u) ==
    LET h1 == HashChar(u.letter)
        h2 == HashFloat(u.center[1])
        h3 == HashFloat(u.center[2])
        h4 == HashFloat(u.size[1])
        h5 == HashFloat(u.size[2])
        h6 == HashFloat(u.angle)
    IN  Xor(h1, Xor(ShiftLeft(h2, 1), Xor(ShiftLeft(h3, 2),
            Xor(ShiftLeft(h4, 3), Xor(ShiftLeft(h5, 4), ShiftLeft(h6, 5))))))

\* the bucket a node is looked up in
BucketIndex(u) == Hash(u) % MaxBuckets

\* visited.contains(u): a node of u's bucket that compares equal to u
Contains(set, u) ==
    \E i \in DOMAIN set[BucketIndex(u)] : Equals(set[BucketIndex(u)][i], u)

\* visited.insert(u): nothing when the container holds an equal node
InsertInto(set, u) ==
    IF Contains(set, u) THEN set
    ELSE [ set EXCEPT ![BucketIndex(u)] = Append(@, u) ]

\* dfs inserts the node it enters into visited
InsertNode ==
    /\ hashOfFloat \in FloatHashes
    /\ Len(inserted) < MaxInserted
    /\ \E u \in Observations :
        /\ hashSet' = InsertInto(hashSet, u)
        /\ inserted' = Append(inserted, u)
    /\ UNCHANGED << hashOfFloat, mainVars, graphVars, threadVars >>

\* std::unordered_set<LetterNode> visited{}
InitNodes ==
    /\ MainInit
    /\ ~dictionaryFile.isOpen
    /\ GraphIdle
    /\ ThreadsIdle
    /\ hashOfFloat \in FloatHashes
    /\ hashSet = [ i \in 0 .. MaxBuckets - 1 |-> <<>> ]
    /\ inserted = <<>>

NextNodes ==
    \/ InsertNode

SpecNodes == InitNodes /\ [][NextNodes]_vars

\* the entries the container holds, as (bucket, position) pairs
Entries ==
    { e \in (DOMAIN hashSet) \X (1 .. MaxInserted) : e[2] \in DOMAIN hashSet[e[1]] }

\* C22: two observations are equal exactly when letter, centre, size and
\* angle all match; equal observations have the same hash; and so the
\* container holds one entry per distinct observation inserted: every
\* inserted observation is found, in exactly one entry.
C22_EqualObservationsShareHashAndEntry ==
    /\ \A u, v \in Observations :
        /\ Equals(u, v) <=> u = v
        /\ Equals(u, v) => Hash(u) = Hash(v)
    /\ Cardinality(Entries) = Cardinality(Range(inserted))
    /\ \A i \in DOMAIN inserted :
        /\ Contains(hashSet, inserted[i])
        /\ Cardinality({ e \in Entries : hashSet[e[1]][e[2]] = inserted[i] }) = 1

\* the same observation inserted twice is one entry
C22_Witness ==
    /\ hashOfFloat = "mixed"
    /\ inserted = << A1, A1 >>
    /\ Cardinality(Entries) = 1

\* ---------------------------------------------------------------------
\* The solver called on word lists in every order
\* ---------------------------------------------------------------------

\* how many words the lists handed to the solver have at most
MaxWords == 3

\* the words on the board: "A", "B", "AB"
SolverWords == { << 65 >>, << 66 >>, << 65, 66 >> }

\* every list of at most MaxWords words, repeated words included
SolverBoards == SeqsUpTo(SolverWords, MaxWords)

\* initialize has constructed the instance from a file of MaxLines lines
InitSolver ==
    /\ dictionaryFile \in
          { [ isOpen |-> TRUE, lines |-> f ] :
              f \in { g \in DictionaryFiles : Len(g) = MaxLines } }
    /\ mainPc = "loop"
    /\ exitCode = Running
    /\ what = "none"
    /\ instance = TRUE
    /\ sortedStringToAnagrams = Constructor(dictionaryFile).index
    /\ boardWords = <<>>
    /\ words = <<>>
    /\ powerSetWords = <<>>
    /\ snatchableWords = <<>>
    /\ GraphIdle
    /\ ThreadsIdle
    /\ NodesIdle

\* generateSnatchableWords up to the initialization of powerSetWords
SolverGeneratesSubsets ==
    /\ mainPc = "loop"
    /\ \E board \in SolverBoards :
        /\ boardWords' = board
        /\ words' = board
        /\ powerSetWords' = generateSubsets(SizeMinusOne(Len(board)), board)
    /\ snatchableWords' = <<>>
    /\ mainPc' = "generateSubsets"
    /\ UNCHANGED << dictionaryFile, exitCode, what, instance,
                    sortedStringToAnagrams, graphVars, threadVars, nodeVars >>

\* generateSnatchableWords from std::erase_if to its return
SolverExaminesSubsets ==
    /\ mainPc = "generateSubsets"
    /\ LET powerSet == EraseSmall(powerSetWords)
           acc == ExamineSubsets([ index |-> sortedStringToAnagrams,
                                   snatchableWords |-> <<>> ], powerSet)
       IN  /\ powerSetWords' = powerSet
           /\ snatchableWords' = acc.snatchableWords
           /\ sortedStringToAnagrams' = acc.index
    /\ mainPc' = "processFrame"
    /\ UNCHANGED << dictionaryFile, exitCode, what, instance, boardWords, words,
                    graphVars, threadVars, nodeVars >>

NextSolver ==
    \/ SolverGeneratesSubsets
    \/ SolverExaminesSubsets

SpecSolver == InitSolver /\ [][NextSolver]_vars

\* bit j of the mask m, j = 0 for the lowest
Bit(m, j) == (m \div (2 ^ j)) % 2

\* the positions (from 1) whose bit is set in the mask m
MaskPositions(m, n) == { j \in 1 .. n : Bit(m, j - 1) = 1 }

\* the subset of the mask m: the words whose position bit is set, in
\* increasing position order
MaskSubset(ws, m) == WordsAt(ws, MaskPositions(m, Len(ws)))

\* the enumeration by bitmasks 0 .. 2^n - 1
BitmaskSubsets(ws) == [ k \in 1 .. 2 ^ Len(ws) |-> MaskSubset(ws, k - 1) ]

\* the mask whose n bits are those of m in reverse
RECURSIVE ReverseBits(_, _)
ReverseBits(m, n) ==
    IF n = 0 THEN 0
    ELSE (m % 2) * (2 ^ (n - 1)) + ReverseBits(m \div 2, n - 1)

\* s and t hold the same elements with the same multiplicities
SameMultiset(s, t) ==
    /\ Len(s) = Len(t)
    /\ \A x \in Range(s) \cup Range(t) : Count(s, x) = Count(t, x)

\* every element of s occurs in t at least as often
ContainedAsMultiset(s, t) == \A x \in Range(s) : Count(s, x) <= Count(t, x)

\* the solver's loop run on the subsets the bitmask enumeration yields
ResultOfBitmasks(ws, index) ==
    ExamineSubsets([ index |-> index, snatchableWords |-> <<>> ],
                   EraseSmall(BitmaskSubsets(ws))).snatchableWords

\* C24: for n >= 1 words generateSubsets(n - 1, words) returns 2^n subsets,
\* one per bitmask 0 .. 2^n - 1 (the subset at position p is the one of the
\* mask with the n bits of p reversed), each the words of the set bits in
\* increasing position order; the bitmask enumeration is the same multiset
\* of subsets and gives the same solver result as a multiset.
C24_SubsetsAreTheBitmasks ==
    /\ (mainPc = "generateSubsets" /\ words # <<>>) =>
        /\ Len(powerSetWords) = 2 ^ Len(words)
        /\ \A p \in 0 .. Len(powerSetWords) - 1 :
              powerSetWords[p + 1] = MaskSubset(words, ReverseBits(p, Len(words)))
        /\ SameMultiset(powerSetWords, BitmaskSubsets(words))
    /\ (mainPc = "processFrame" /\ words # <<>>) =>
        SameMultiset(snatchableWords, ResultOfBitmasks(words, sortedStringToAnagrams))

\* three words, one of them twice: eight subsets
C24_WitnessSubsets ==
    /\ mainPc = "generateSubsets"
    /\ words = << << 65 >>, << 65, 66 >>, << 65 >> >>
    /\ Len(powerSetWords) = 8

\* the list ws rearranged by the permutation f
Permuted(ws, f) == [ i \in 1 .. Len(ws) |-> ws[f[i]] ]

\* C29: the result of generateSnatchableWords does not depend on the order
\* of the input words: on every permutation of the list, with the same
\* dictionary, the result is the same multiset of words.
C29_ResultIgnoresWordOrder ==
    mainPc = "processFrame" =>
        \A f \in Permutations(1 .. Len(words)) :
            SameMultiset(snatchableWords,
                generateSnatchableWords(Permuted(words, f),
                                        sortedStringToAnagrams).snatchableWords)

\* "AB", "A", "B" against a dictionary that holds "AAB" and "ABB": both found
C29_Witness ==
    /\ mainPc = "processFrame"
    /\ words = << << 65, 66 >>, << 65 >>, << 66 >> >>
    /\ Len(snatchableWords) >= 2
    /\ \E i, j \in DOMAIN snatchableWords : snatchableWords[i] # snatchableWords[j]

\* C30: generateSnatchableWords is monotone: the result for a list is
\* contained, as a multiset, in the result for the list with one more word
\* appended.
C30_ResultGrowsWithTheList ==
    mainPc = "processFrame" =>
        \A w \in SolverWords :
            ContainedAsMultiset(snatchableWords,
                generateSnatchableWords(Append(words, w),
                                        sortedStringToAnagrams).snatchableWords)

\* a list with a result that is not empty and that an appended "B" enlarges
C30_Witness ==
    /\ mainPc = "processFrame"
    /\ Len(words) = 2
    /\ snatchableWords # <<>>
    /\ Len(generateSnatchableWords(Append(words, << 66 >>),
                                   sortedStringToAnagrams).snatchableWords)
           > Len(snatchableWords)
====
